---- MODULE Spec2Model ----
(***************************************************************************)
(* Model of src/main.rs: a Discord handler that, for one inbound message,  *)
(* searches three dictionary sites concurrently (tokio::join!), partitions *)
(* the three outcomes into results and errors, and answers once.           *)
(*                                                                         *)
(* Strings are TLA+ strings (Len, \o and SubSeq act on them as on Rust     *)
(* strings).  Characters outside ASCII in the source's literals (the emoji *)
(* icons and the Chinese labels and JSON keys) are written as ASCII        *)
(* markers in braces; they are opaque to every operation of the program.   *)
(***************************************************************************)
EXTENDS Integers, Sequences, FiniteSets, TLC

VARIABLES
    msg,            \* the inbound Message: author.bot, channel_id, content
    upstream,       \* what each site answers to this request's GET
    pc,             \* position of Handler::message
    keyword,        \* msg.content.trim()
    phase,          \* per adapter: "idle", "fetching", "reading", "settled"
    outcome,        \* per adapter: the Result its future resolved to
    settleOrder,    \* the adapters in the order they settled
    joined,         \* (taigitv_result, sutian_result, itaigi_result)
    all_results,    \* Vec<String> of Handler::message
    error_messages, \* Vec<String> of Handler::message
    http,           \* the GET requests issued
    sent,           \* the outbound platform actions attempted
    log             \* the lines printed for rejected platform actions

vars == <<msg, upstream, pc, keyword, phase, outcome, settleOrder, joined,
          all_results, error_messages, http, sent, log>>

----------------------------------------------------------------------------
(* Bounds of the model                                                      *)

MaxAnchors == 4     \* anchors matched by the TaigiTV selector
MaxRows == 2        \* elements matched by each Sutian mobile selector
MaxList == 4        \* entries of each iTaigi JSON array
MaxRest == 2        \* characters of an href after its leading part

(* Program constants                                                        *)

TaigitvTake == 3    \* .take(3) of search_taigitv
ItaigiListTake == 3 \* list.iter().take(3)
ItaigiSuggestTake == 3 \* suggestions.iter().take(3)
ItaigiForeignTake == 2 \* foreign_list.iter().take(2)

TargetChannel == "1372944023026794576"
BaseTaigitv == "https://www.taigitv.org.tw"
BaseSutian == "https://sutian.moe.edu.tw"
IconTaigitv == "{tv}"
IconSutian == "{books}"
IconItaigi == "{label}"
IconUp == "{up}"
IconDown == "{down}"
IconWarn == "{warn}"
IconCross == "{x}"
Anonymous == "{anon}"
SuggestTag == "({suggest})"
Prompt == "Please provide a keyword to search for."

TaigiTV == "TaigiTV"
Sutian == "Sutian"
iTaigi == "iTaigi"
Sites == <<TaigiTV, Sutian, iTaigi>>
SiteSet == {TaigiTV, Sutian, iTaigi}

----------------------------------------------------------------------------
(* str operations                                                           *)

Min(a, b) == IF a <= b THEN a ELSE b

WhiteSpace == {" ", "\t", "\n", "\r", "\f"}

CharAt(s, i) == SubSeq(s, i, i)

Drop(s, n) == SubSeq(s, n + 1, Len(s))

starts_with(s, p) == Len(s) >= Len(p) /\ SubSeq(s, 1, Len(p)) = p

ends_with(s, p) == Len(s) >= Len(p) /\ SubSeq(s, Len(s) - Len(p) + 1, Len(s)) = p

RECURSIVE trim_start(_)
trim_start(s) ==
    IF Len(s) = 0 THEN s
    ELSE IF CharAt(s, 1) \in WhiteSpace THEN trim_start(Drop(s, 1))
    ELSE s

RECURSIVE trim_end(_)
trim_end(s) ==
    IF Len(s) = 0 THEN s
    ELSE IF CharAt(s, Len(s)) \in WhiteSpace THEN trim_end(SubSeq(s, 1, Len(s) - 1))
    ELSE s

trim(s) == trim_end(trim_start(s))

RECURSIVE UpToNewline(_)
UpToNewline(s) ==
    IF Len(s) = 0 THEN s
    ELSE IF CharAt(s, 1) = "\n" THEN ""
    ELSE CharAt(s, 1) \o UpToNewline(Drop(s, 1))

(* s.lines().next().unwrap_or(""): the text before the first line ending,   *)
(* a line ending being "\n" or "\r\n".                                      *)
first_line(s) ==
    LET l == UpToNewline(s)
    IN  IF Len(l) < Len(s) /\ ends_with(l, "\r") THEN SubSeq(l, 1, Len(l) - 1) ELSE l

RECURSIVE join(_, _)
join(v, sep) ==
    IF v = <<>> THEN ""
    ELSE IF Len(v) = 1 THEN v[1]
    ELSE v[1] \o sep \o join(Tail(v), sep)

take(v, n) == SubSeq(v, 1, Min(n, Len(v)))

----------------------------------------------------------------------------
(* Option and Result values                                                 *)

Some(x) == [some |-> TRUE, v |-> x]
NoStr == [some |-> FALSE, v |-> ""]
NoInt == [some |-> FALSE, v |-> 0]
NoArr == [some |-> FALSE, v |-> <<>>]
unwrap_or(o, d) == IF o.some THEN o.v ELSE d

Ok(v) == [tag |-> "Ok", val |-> v, err |-> ""]
Err(e) == [tag |-> "Err", val |-> <<>>, err |-> e]
Pending == [tag |-> "Pending", val |-> <<>>, err |-> ""]

----------------------------------------------------------------------------
(* URL resolution, written inline in search_taigitv and twice in            *)
(* search_sutian with the site's origin as base.                            *)

resolve_href(base, href) ==
    IF starts_with(href, "http") THEN href
    ELSE IF starts_with(href, "/") THEN base \o href
    ELSE base \o "/" \o href

----------------------------------------------------------------------------
(* search_taigitv.  A document is the sequence of elements the selector     *)
(* ".btngaa .h3 a" matches, in document order: [text, href], href an        *)
(* Option.  The selector is a constant that compiles, so the map_err        *)
(* branch is never taken.                                                   *)

taigitv_line(element) ==
    LET text == trim(element.text)
        u == resolve_href(BaseTaigitv, element.href.v)
    IN  IconTaigitv \o " " \o text \o " - " \o u

RECURSIVE filter_map_anchors(_)
filter_map_anchors(document) ==
    IF document = <<>> THEN <<>>
    ELSE (IF Head(document).href.some THEN <<taigitv_line(Head(document))>> ELSE <<>>)
         \o filter_map_anchors(Tail(document))

parse_taigitv_take_first(document) ==
    filter_map_anchors(take(document, TaigitvTake))

parse_taigitv_unlimited(document) ==
    filter_map_anchors(document)

parse_taigitv(document) ==
    take(filter_map_anchors(document), TaigitvTake)

----------------------------------------------------------------------------
(* search_sutian.  A document is what its four selectors match:             *)
(* mlinks/mprons for the mobile table, dlinks/dprons for the desktop one.   *)

sutian_row(link_element, pronunciation_element) ==
    LET word == trim(link_element.text)
        href == unwrap_or(link_element.href, "")
        pronunciation == trim(first_line(trim(pronunciation_element)))
        full_url == resolve_href(BaseSutian, href)
    IN  IF word # "" /\ pronunciation # ""
        THEN <<IconSutian \o " " \o word \o " [" \o pronunciation \o "] - " \o full_url>>
        ELSE <<>>

parse_sutian(document) ==
    IF document.mlinks # <<>> /\ document.mprons # <<>>
    THEN sutian_row(Head(document.mlinks), Head(document.mprons))
    ELSE IF document.dlinks # <<>> /\ document.dprons # <<>>
    THEN sutian_row(Head(document.dlinks), Head(document.dprons))
    ELSE <<>>

----------------------------------------------------------------------------
(* search_itaigi.  A body is [valid, list, suggestions]: valid says         *)
(* whether serde_json parses it; list and suggestions are the arrays under  *)
(* the two top-level keys, an Option that is none when the key is absent    *)
(* or no array.  Every field of an entry is an Option in the same way.      *)

itaigi_item(item) ==
    LET foreign_word == unwrap_or(item.foreign, "N/A")
    IN  IF item.new_words.some /\ item.new_words.v # <<>>
        THEN LET first_entry == Head(item.new_words.v)
                 taigi_text == unwrap_or(first_entry.text, "N/A")
                 pronunciation == unwrap_or(first_entry.pron, "N/A")
                 contributor == unwrap_or(first_entry.contributor, Anonymous)
                 good_votes == unwrap_or(first_entry.good, 0)
                 bad_votes == unwrap_or(first_entry.bad, 0)
                 itaigi_url == "https://itaigi.tw/k/" \o foreign_word
             IN  <<IconItaigi \o " " \o foreign_word \o " -> " \o taigi_text
                   \o " [" \o pronunciation \o "] (" \o IconUp \o ToString(good_votes)
                   \o " " \o IconDown \o ToString(bad_votes) \o ") by " \o contributor
                   \o " - " \o itaigi_url>>
        ELSE <<>>

RECURSIVE itaigi_items(_)
itaigi_items(list) ==
    IF list = <<>> THEN <<>> ELSE itaigi_item(Head(list)) \o itaigi_items(Tail(list))

itaigi_primary(json) ==
    IF json.list.some THEN itaigi_items(take(json.list.v, ItaigiListTake)) ELSE <<>>

RECURSIVE foreign_strings(_)
foreign_strings(foreign_list) ==
    IF foreign_list = <<>> THEN <<>>
    ELSE (IF Head(foreign_list).foreign.some THEN <<Head(foreign_list).foreign.v>> ELSE <<>>)
         \o foreign_strings(Tail(foreign_list))

itaigi_suggestion(suggestion, kw) ==
    LET taigi_text == unwrap_or(suggestion.text, "N/A")
        pronunciation == unwrap_or(suggestion.pron, "N/A")
        foreign_words ==
            IF suggestion.foreign_list.some
            THEN foreign_strings(take(suggestion.foreign_list.v, ItaigiForeignTake))
            ELSE <<>>
        foreign_display == IF foreign_words = <<>> THEN kw ELSE join(foreign_words, ", ")
    IN  IconItaigi \o " " \o foreign_display \o " -> " \o taigi_text
          \o " [" \o pronunciation \o "] " \o SuggestTag \o " - https://itaigi.tw"

itaigi_fallback(json, kw) ==
    IF json.suggestions.some
    THEN LET s == take(json.suggestions.v, ItaigiSuggestTake)
         IN  [i \in 1..Len(s) |-> itaigi_suggestion(s[i], kw)]
    ELSE <<>>

parse_itaigi_always_fallback(json, kw) ==
    itaigi_primary(json) \o itaigi_fallback(json, kw)

parse_itaigi(json, kw) ==
    LET results == itaigi_primary(json)
    IN  IF results = <<>> THEN itaigi_fallback(json, kw) ELSE results

----------------------------------------------------------------------------
(* What an adapter's future resolves to, phase by phase.  A response is     *)
(* [kind, body]: kind "fetch_err" when reqwest::get fails, "read_err" when  *)
(* response.text() fails, "body" otherwise.                                 *)

fetch_error(site) == Err("Error fetching from " \o site)

read_error(site) == Err("Error reading response from " \o site)

parse_body(site, body, kw) ==
    IF site = TaigiTV THEN Ok(parse_taigitv(body))
    ELSE IF site = Sutian THEN Ok(parse_sutian(body))
    ELSE IF body.valid THEN Ok(parse_itaigi(body, kw))
    ELSE Err("Error parsing JSON from iTaigi")

----------------------------------------------------------------------------
(* Handler::message, piece by piece                                         *)

should_ignore_bot_only(m) == m.bot

should_ignore(m) == m.bot \/ m.channel # TargetChannel

keyword_untrimmed(content) == content

keyword_of(content) == trim(content)

join_any_settled == \E a \in SiteSet : phase[a] = "settled"

(* tokio::join! resolves when each of its three futures has resolved.       *)
join_ready == \A a \in SiteSet : phase[a] = "settled"

collect_results(r) == IF r.tag = "Ok" THEN r.val ELSE <<>>

collect_error(site, r) == IF r.tag = "Err" THEN <<site \o ": " \o r.err>> ELSE <<>>

RECURSIVE partition_in(_, _)
partition_in(order, j) ==
    IF order = <<>> THEN [all |-> <<>>, errs |-> <<>>]
    ELSE LET rest == partition_in(Tail(order), j)
             a == Head(order)
         IN  [all |-> collect_results(j[a]) \o rest.all,
              errs |-> collect_error(a, j[a]) \o rest.errs]

partition_by_settle_order(j) == partition_in(settleOrder, j)

partition(j) == partition_in(Sites, j)

found_message(results, kw) ==
    LET count == Len(results)
        results_text == join(results, "\n")
    IN  IF count = 1
        THEN "Found 1 result for \"" \o kw \o "\":\n" \o results_text
        ELSE "Found " \o ToString(count) \o " results for \"" \o kw \o "\":\n" \o results_text

warning_suffix(errors) ==
    "\n\n" \o IconWarn \o " Some sources had issues: " \o join(errors, ", ")

all_failed_message(errors) ==
    "Could not search any sources. Errors: " \o join(errors, ", ")

reply_action_errors_first(results, errors, kw) ==
    IF errors # <<>> THEN [kind |-> "say", text |-> all_failed_message(errors)]
    ELSE IF results # <<>> THEN [kind |-> "say", text |-> found_message(results, kw)]
    ELSE [kind |-> "react", text |-> IconCross]

reply_action(results, errors, kw) ==
    IF results # <<>>
    THEN [kind |-> "say",
          text |-> IF errors # <<>>
                   THEN found_message(results, kw) \o warning_suffix(errors)
                   ELSE found_message(results, kw)]
    ELSE IF errors # <<>>
    THEN [kind |-> "say", text |-> all_failed_message(errors)]
    ELSE [kind |-> "react", text |-> IconCross]

NoOutcomes == [a \in SiteSet |-> Pending]

----------------------------------------------------------------------------
(* Actions                                                                  *)

(* lines 277-279: a bot's message, or one from another channel              *)
Ignore ==
    /\ pc = "start"
    /\ should_ignore(msg)
    /\ pc' = "ignored"
    /\ UNCHANGED <<msg, upstream, keyword, phase, outcome, settleOrder, joined,
                   all_results, error_messages, http, sent, log>>

(* lines 281-292: the keyword is empty after trim                           *)
PromptKeyword ==
    /\ pc = "start"
    /\ ~should_ignore(msg)
    /\ keyword_of(msg.content) = ""
    /\ keyword' = keyword_of(msg.content)
    /\ \E accepted \in BOOLEAN :
          /\ sent' = Append(sent, [kind |-> "say", text |-> Prompt])
          /\ log' = IF accepted THEN log
                    ELSE Append(log, "Error sending empty keyword message")
    /\ pc' = "prompted"
    /\ UNCHANGED <<msg, upstream, phase, outcome, settleOrder, joined,
                   all_results, error_messages, http>>

(* lines 294-299, first poll: the three futures start; each issues its GET  *)
StartSearch ==
    /\ pc = "start"
    /\ ~should_ignore(msg)
    /\ keyword_of(msg.content) # ""
    /\ keyword' = keyword_of(msg.content)
    /\ phase' = [a \in SiteSet |-> "fetching"]
    /\ http' = http \o [i \in 1..Len(Sites) |->
                          [site |-> Sites[i], keyword |-> keyword_of(msg.content)]]
    /\ pc' = "join"
    /\ UNCHANGED <<msg, upstream, outcome, settleOrder, joined, all_results,
                   error_messages, sent, log>>

(* reqwest::get(..).await of adapter a resolves                             *)
FetchSettle(a) ==
    /\ pc = "join"
    /\ phase[a] = "fetching"
    /\ IF upstream[a].kind = "fetch_err"
       THEN /\ outcome' = [outcome EXCEPT ![a] = fetch_error(a)]
            /\ phase' = [phase EXCEPT ![a] = "settled"]
            /\ settleOrder' = Append(settleOrder, a)
       ELSE /\ phase' = [phase EXCEPT ![a] = "reading"]
            /\ UNCHANGED <<outcome, settleOrder>>
    /\ UNCHANGED <<msg, upstream, pc, keyword, joined, all_results,
                   error_messages, http, sent, log>>

(* response.text().await of adapter a resolves; the rest of the adapter     *)
(* runs without suspending                                                  *)
ReadSettle(a) ==
    /\ pc = "join"
    /\ phase[a] = "reading"
    /\ outcome' = [outcome EXCEPT ![a] =
                     IF upstream[a].kind = "read_err" THEN read_error(a)
                     ELSE parse_body(a, upstream[a].body, keyword)]
    /\ phase' = [phase EXCEPT ![a] = "settled"]
    /\ settleOrder' = Append(settleOrder, a)
    /\ UNCHANGED <<msg, upstream, pc, keyword, joined, all_results,
                   error_messages, http, sent, log>>

(* lines 295-299: join! yields the tuple of the three results               *)
Join ==
    /\ pc = "join"
    /\ join_ready
    /\ joined' = outcome
    /\ pc' = "partition"
    /\ UNCHANGED <<msg, upstream, keyword, phase, outcome, settleOrder,
                   all_results, error_messages, http, sent, log>>

(* lines 301-320                                                            *)
Partition ==
    /\ pc = "partition"
    /\ all_results' = partition(joined).all
    /\ error_messages' = partition(joined).errs
    /\ pc' = "reply"
    /\ UNCHANGED <<msg, upstream, keyword, phase, outcome, settleOrder, joined,
                   http, sent, log>>

(* lines 322-363: one say or one react; a rejection is printed              *)
Reply ==
    /\ pc = "reply"
    /\ LET r == reply_action(all_results, error_messages, keyword)
       IN  \E accepted \in BOOLEAN :
              /\ sent' = Append(sent, r)
              /\ log' = IF accepted THEN log
                        ELSE Append(log,
                               IF r.kind = "react" THEN "Error adding reaction"
                               ELSE IF all_results # <<>> THEN "Error sending message"
                               ELSE "Error sending error message")
    /\ pc' = "replied"
    /\ UNCHANGED <<msg, upstream, keyword, phase, outcome, settleOrder, joined,
                   all_results, error_messages, http>>

----------------------------------------------------------------------------
(* Inputs: the inbound messages and the sites' answers the model draws      *)

SeqsUpTo(S, n) == UNION {[1..k -> S] : k \in 0..n}

FetchErr == [kind |-> "fetch_err", body |-> <<>>]
ReadErr == [kind |-> "read_err", body |-> <<>>]
Body(b) == [kind |-> "body", body |-> b]

Up(a, b, c) == [s \in SiteSet |-> IF s = TaigiTV THEN a ELSE IF s = Sutian THEN b ELSE c]

OtherChannel == "1372944023026794577"

Contents == {"", "   ", " \t\r\n", "tsiah png", "  tsiah \n"}

Msgs == [bot : BOOLEAN, channel : {TargetChannel, OtherChannel}, content : Contents]

ValidMsg == [bot |-> FALSE, channel |-> TargetChannel, content |-> " tsiah png "]

(* TaigiTV *)
Anchor(t, h) == [text |-> t, href |-> h]

AnchorKinds ==
    { Anchor("tsiah", Some("/w/1")),
      Anchor(" png ", Some("http://t.tw/2")),
      Anchor("khi", NoStr),
      Anchor("lim", Some("w/3")) }

TaigitvDocs == SeqsUpTo(AnchorKinds, MaxAnchors)

(* Sutian *)
SutianDoc(ml, mp, dl, dp) == [mlinks |-> ml, mprons |-> mp, dlinks |-> dl, dprons |-> dp]

LinkKinds ==
    { Anchor(" tsiah-png ", Some("/su/1")),
      Anchor("  ", Some("su/2")),
      Anchor("lim", NoStr) }

PronKinds == {" tsiah8-png7\r\n (note) ", " \n "}

SutianDocs ==
    { SutianDoc(ml, mp, dl, dp) :
        ml \in SeqsUpTo(LinkKinds, MaxRows), mp \in SeqsUpTo(PronKinds, MaxRows),
        dl \in {<<>>, <<Anchor("khi", Some("http://s.tw/3"))>>},
        dp \in {<<>>, <<"khi3">>} }

(* iTaigi *)
Entry(t, p, c, g, b) == [text |-> t, pron |-> p, contributor |-> c, good |-> g, bad |-> b]

FullEntry == Entry(Some("tsiah-png"), Some("tsiah8-png7"), Some("A-bing"), Some(3), Some(1))

BareEntry == Entry(NoStr, NoStr, NoStr, NoInt, NoInt)

Item(f, n) == [foreign |-> f, new_words |-> n]

ItemKinds ==
    { Item(Some("eat"), Some(<<FullEntry, BareEntry>>)),
      Item(NoStr, Some(<<BareEntry>>)),
      Item(Some("rice"), NoArr) }

Foreign(f) == [foreign |-> f]

Suggestion(t, p, fl) == [text |-> t, pron |-> p, foreign_list |-> fl]

SuggestKinds ==
    { Suggestion(Some("tsiah"), Some("tsiah8"),
                 Some(<<Foreign(Some("eat")), Foreign(Some("dine")), Foreign(Some("sup"))>>)),
      Suggestion(NoStr, NoStr, NoArr),
      Suggestion(Some("lim"), Some("lim1"),
                 Some(<<Foreign(NoStr), Foreign(NoStr), Foreign(Some("drink"))>>)) }

Json(l, sg) == [valid |-> TRUE, list |-> l, suggestions |-> sg]

InvalidJson == [valid |-> FALSE, list |-> NoArr, suggestions |-> NoArr]

OptSeqsUpTo(S, n) == {NoArr} \cup {Some(q) : q \in SeqsUpTo(S, n)}

FewLists == {NoArr, Some(<<>>), Some(<<Item(Some("rice"), Some(<<>>))>>),
             Some(<<Item(Some("eat"), Some(<<FullEntry>>))>>)}

FewSuggestions ==
    {NoArr, Some(<<>>), Some(<<Suggestion(Some("tsiah"), Some("tsiah8"), Some(<<>>))>>)}

ItaigiJsons ==
    {Json(l, sg) : l \in OptSeqsUpTo(ItemKinds, MaxList), sg \in FewSuggestions}
    \cup {Json(l, sg) : l \in FewLists, sg \in OptSeqsUpTo(SuggestKinds, MaxList)}

(* href values *)
Leads == {"", "/", "//", "http://", "https://", "http", "HTTP://", "ftp://",
          "mailto:", "?", "#", "./", "../"}

Rests == SeqsUpTo({"a", "/", ":"}, MaxRest)

RECURSIVE concat(_)
concat(v) == IF v = <<>> THEN "" ELSE Head(v) \o concat(Tail(v))

Hrefs == {l \o concat(r) : l \in Leads, r \in Rests}

(* small answers, combined freely with every message *)
FewTaigitv ==
    {FetchErr, ReadErr, Body(<<>>),
     Body(<<Anchor("tsiah", Some("/w/1")), Anchor("tsiah", Some("/w/1"))>>)}

FewSutian ==
    {FetchErr, ReadErr, Body(SutianDoc(<<>>, <<>>, <<>>, <<>>)),
     Body(SutianDoc(<<Anchor("tsiah", Some("/w/1"))>>, <<"tsiah8">>, <<>>, <<>>))}

FewItaigi ==
    {FetchErr, ReadErr, Body(InvalidJson), Body(Json(NoArr, NoArr)),
     Body(Json(Some(<<Item(Some("eat"), Some(<<FullEntry>>))>>), NoArr))}

(* answers that fill every adapter's list to its cap and beyond *)
FullTaigitv == {Body([i \in 1..n |-> Anchor("tsiah", Some("/w/1"))]) : n \in 0..MaxAnchors}

FullSutian ==
    {Body(SutianDoc([i \in 1..n |-> Anchor("tsiah", Some("/su/1"))],
                    [i \in 1..n |-> "tsiah8"],
                    <<Anchor("khi", Some("/su/2"))>>, <<"khi3">>)) : n \in 0..MaxRows}

FullItaigi ==
    {Body(Json(Some([i \in 1..n |-> Item(Some("eat"), Some(<<FullEntry>>))]),
               Some([i \in 1..k |-> Suggestion(Some("tsiah"), Some("tsiah8"), NoArr)]))) :
        n \in {0, MaxList}, k \in {0, MaxList}}

Scenarios ==
    (Msgs \X {Up(a, b, c) : a \in FewTaigitv, b \in FewSutian, c \in FewItaigi})
    \cup ({ValidMsg} \X {Up(Body(d), FetchErr, Body(Json(NoArr, NoArr))) : d \in TaigitvDocs})
    \cup ({ValidMsg} \X {Up(FetchErr, Body(d), FetchErr) : d \in SutianDocs})
    \cup ({ValidMsg} \X {Up(ReadErr, FetchErr, Body(d)) : d \in ItaigiJsons})
    \cup ({ValidMsg} \X {Up(Body(<<Anchor("tsiah", Some(h))>>),
                            Body(SutianDoc(<<Anchor("tsiah", Some(h))>>, <<"tsiah8">>, <<>>, <<>>)),
                            FetchErr) : h \in Hrefs})
    \cup ({ValidMsg} \X {Up(a, b, c) : a \in FullTaigitv, b \in FullSutian, c \in FullItaigi})

----------------------------------------------------------------------------

Init ==
    /\ \E sc \in Scenarios : msg = sc[1] /\ upstream = sc[2]
    /\ pc = "start"
    /\ keyword = ""
    /\ phase = [a \in SiteSet |-> "idle"]
    /\ outcome = NoOutcomes
    /\ settleOrder = <<>>
    /\ joined = NoOutcomes
    /\ all_results = <<>>
    /\ error_messages = <<>>
    /\ http = <<>>
    /\ sent = <<>>
    /\ log = <<>>

(* The shape of the state *)
TypeOK ==
    /\ pc \in {"start", "ignored", "prompted", "join", "partition", "reply", "replied"}
    /\ msg.bot \in BOOLEAN
    /\ phase \in [SiteSet -> {"idle", "fetching", "reading", "settled"}]
    /\ DOMAIN outcome = SiteSet /\ DOMAIN joined = SiteSet /\ DOMAIN upstream = SiteSet
    /\ \A a \in SiteSet :
          /\ outcome[a].tag \in {"Ok", "Err", "Pending"}
          /\ (phase[a] = "settled") = (outcome[a].tag # "Pending")
          /\ upstream[a].kind \in {"fetch_err", "read_err", "body"}
    /\ Len(settleOrder) = Cardinality({a \in SiteSet : phase[a] = "settled"})
    /\ Len(http) \in {0, 3}
    /\ Len(sent) <= 1 /\ Len(log) <= Len(sent)

Next ==
    \/ Ignore
    \/ PromptKeyword
    \/ StartSearch
    \/ \E a \in SiteSet : FetchSettle(a)
    \/ \E a \in SiteSet : ReadSettle(a)
    \/ Join
    \/ Partition
    \/ Reply

Spec == Init /\ [][Next]_vars

----------------------------------------------------------------------------
(* Properties                                                               *)

Searched == pc \in {"partition", "reply", "replied"}

SuccessOf(a) == IF outcome[a].tag = "Ok" THEN outcome[a].val ELSE <<>>

FailureOf(a) == IF outcome[a].tag = "Err" THEN <<a \o ": " \o outcome[a].err>> ELSE <<>>

IsBlank(s) == \A i \in 1..Len(s) : CharAt(s, i) \in WhiteSpace

AllIdle == \A a \in SiteSet : phase[a] = "idle"

\* C1: a request that passes the entry guards partitions nothing and sends
\* nothing while any adapter is unsettled; once past the join all three
\* adapters have settled and the handler holds exactly three outcomes, one per
\* adapter, each a success list or an error.
C1_JoinIsBarrier ==
    /\ pc = "join" =>
          /\ joined = NoOutcomes
          /\ all_results = <<>> /\ error_messages = <<>> /\ sent = <<>>
    /\ Searched =>
          /\ \A a \in SiteSet : phase[a] = "settled"
          /\ DOMAIN joined = SiteSet
          /\ Cardinality(DOMAIN joined) = 3
          /\ \A a \in SiteSet : joined[a].tag \in {"Ok", "Err"} /\ joined[a] = outcome[a]
          /\ Len(settleOrder) = 3

\* C1 witness: the reply is out after iTaigi failed first and TaigiTV
\* succeeded last.
C1_Witness ==
    /\ pc = "replied"
    /\ settleOrder = <<iTaigi, Sutian, TaigiTV>>
    /\ joined[iTaigi].tag = "Err"
    /\ joined[TaigiTV].tag = "Ok"

\* C2: whatever the completion order, the merged results are TaigiTV's list,
\* then Sutian's, then iTaigi's, nothing dropped as a duplicate, the errors
\* name the failed sources in the same order, and each adapter contributes to
\* exactly one of the two sequences.
C2_MergeInSourceOrder ==
    pc \in {"reply", "replied"} =>
        /\ all_results = SuccessOf(TaigiTV) \o SuccessOf(Sutian) \o SuccessOf(iTaigi)
        /\ error_messages = FailureOf(TaigiTV) \o FailureOf(Sutian) \o FailureOf(iTaigi)
        /\ \A a \in SiteSet : (outcome[a].tag = "Ok") # (outcome[a].tag = "Err")
        /\ Len(error_messages) = Cardinality({a \in SiteSet : outcome[a].tag = "Err"})

\* C2 witness: the adapters finished in the order iTaigi, Sutian, TaigiTV;
\* TaigiTV's two identical lines are both kept and the errors read Sutian,
\* then iTaigi.
C2_Witness ==
    /\ pc = "replied"
    /\ settleOrder = <<iTaigi, Sutian, TaigiTV>>
    /\ Len(all_results) = 2 /\ all_results[1] = all_results[2]
    /\ Len(error_messages) = 2
    /\ starts_with(error_messages[1], "Sutian: ")
    /\ starts_with(error_messages[2], "iTaigi: ")

\* C3: after the adapters settle the handler attempts exactly one platform
\* action, chosen by (success-count, error-count): a "Found" message, a
\* "Could not search any sources" message, or one reaction; it is not
\* repeated, also when the platform rejects it.
C3_OneReplyByCounts ==
    /\ pc \in {"join", "partition", "reply"} => sent = <<>>
    /\ pc = "replied" =>
          /\ Len(sent) = 1
          /\ Len(log) <= 1
          /\ LET n == Len(all_results)
                 e == Len(error_messages)
             IN  /\ n >= 1 => sent[1].kind = "say" /\ starts_with(sent[1].text, "Found")
                 /\ (n = 0 /\ e >= 1) =>
                        /\ sent[1].kind = "say"
                        /\ starts_with(sent[1].text, "Could not search any sources")
                 /\ (n = 0 /\ e = 0) => sent[1].kind = "react"

\* C3 witness: results and an error together, and the platform rejected the
\* one message.
C3_Witness ==
    /\ pc = "replied"
    /\ all_results # <<>> /\ error_messages # <<>>
    /\ log = <<"Error sending message">>
    /\ Len(sent) = 1

\* C4: a message from the configured channel and a human author whose
\* content is empty or only whitespace gets the fixed prompt as its one text
\* reply; no adapter starts, no GET is issued, no reaction is added.
C4_BlankKeywordPrompt ==
    (pc # "start" /\ ~msg.bot /\ msg.channel = TargetChannel /\ IsBlank(msg.content)) =>
        /\ pc = "prompted"
        /\ sent = <<[kind |-> "say", text |-> Prompt]>>
        /\ http = <<>>
        /\ AllIdle

\* C4 witness: a whitespace-only content was answered with the prompt.
C4_Witness ==
    /\ pc = "prompted"
    /\ msg.content = " \t\r\n"
    /\ sent = <<[kind |-> "say", text |-> Prompt]>>

\* C5: when TaigiTV fails at the fetch and Sutian and iTaigi both return
\* success, the reply is the "Found" message with a warning suffix holding
\* the one entry "TaigiTV: Error fetching from TaigiTV".
C5_FetchFailureWarning ==
    (/\ pc = "replied"
     /\ joined[TaigiTV] = Err("Error fetching from TaigiTV")
     /\ joined[Sutian].tag = "Ok"
     /\ joined[iTaigi].tag = "Ok") =>
        /\ sent[1].kind = "say"
        /\ starts_with(sent[1].text, "Found ")
        /\ ends_with(sent[1].text,
                     IconWarn \o " Some sources had issues: TaigiTV: Error fetching from TaigiTV")

\* The same reply does follow once Sutian or iTaigi contributes a line: the
\* failure of C5 is confined to both lists being empty.
FetchFailureWarningWithResults ==
    (/\ pc = "replied"
     /\ joined[TaigiTV] = Err("Error fetching from TaigiTV")
     /\ joined[Sutian].tag = "Ok"
     /\ joined[iTaigi].tag = "Ok"
     /\ joined[Sutian].val \o joined[iTaigi].val # <<>>) =>
        /\ sent[1].kind = "say"
        /\ starts_with(sent[1].text, "Found ")
        /\ ends_with(sent[1].text,
                     IconWarn \o " Some sources had issues: TaigiTV: Error fetching from TaigiTV")

RECURSIVE UrlOf(_)
UrlOf(line) ==
    IF Len(line) < 3 THEN line
    ELSE IF SubSeq(line, 1, 3) = " - " THEN Drop(line, 3)
    ELSE UrlOf(Drop(line, 1))

AbsoluteUrl(u) == starts_with(u, "http://") \/ starts_with(u, "https://")

BranchesTaken(href) ==
    { b \in {"scheme", "root", "relative"} :
        \/ b = "scheme" /\ starts_with(href, "http")
        \/ b = "root" /\ starts_with(href, "/")
        \/ b = "relative" /\ ~starts_with(href, "http") /\ ~starts_with(href, "/") }

\* C6: the URL resolution of the TaigiTV and Sutian adapters is total, exactly
\* one of its three branches applies to an href, and the URL in every output
\* line is absolute.
C6_ResolvedUrlAbsolute ==
    /\ (phase[TaigiTV] = "settled" /\ outcome[TaigiTV].tag = "Ok") =>
          /\ \A i \in 1..Len(upstream[TaigiTV].body) :
                upstream[TaigiTV].body[i].href.some =>
                    Cardinality(BranchesTaken(upstream[TaigiTV].body[i].href.v)) = 1
          /\ \A i \in 1..Len(outcome[TaigiTV].val) : AbsoluteUrl(UrlOf(outcome[TaigiTV].val[i]))
    /\ (phase[Sutian] = "settled" /\ outcome[Sutian].tag = "Ok") =>
          \A i \in 1..Len(outcome[Sutian].val) : AbsoluteUrl(UrlOf(outcome[Sutian].val[i]))

\* C7: a successful Sutian list has at most 1 entry, successful TaigiTV and
\* iTaigi lists at most 3, and the merged results never exceed 7 entries.
C7_ResultCaps ==
    /\ outcome[Sutian].tag = "Ok" => Len(outcome[Sutian].val) <= 1
    /\ outcome[TaigiTV].tag = "Ok" => Len(outcome[TaigiTV].val) <= 3
    /\ outcome[iTaigi].tag = "Ok" => Len(outcome[iTaigi].val) <= 3
    /\ Len(all_results) <= 7

\* C7 witness: every site answered with more than its cap and the merged
\* list holds exactly 7 entries.
C7_Witness ==
    /\ pc = "replied"
    /\ \A a \in SiteSet : upstream[a].kind = "body"
    /\ upstream[iTaigi].body.valid /\ upstream[iTaigi].body.list.some
    /\ Len(upstream[TaigiTV].body) > 3
    /\ Len(upstream[Sutian].body.mlinks) > 1
    /\ Len(upstream[iTaigi].body.list.v) > 3
    /\ Len(all_results) = 7

\* C8: a message of a bot, or one from another channel than the configured
\* one, causes no outbound action: no adapter starts, no GET, no message, no
\* reaction.
C8_IgnoredIsSilent ==
    (pc # "start" /\ (msg.bot \/ msg.channel # TargetChannel)) =>
        /\ pc = "ignored"
        /\ http = <<>>
        /\ sent = <<>>
        /\ AllIdle

\* C8 witness: a human's keyword in another channel was dropped.
C8_Witness ==
    /\ pc = "ignored"
    /\ ~msg.bot
    /\ msg.channel = OtherChannel
    /\ msg.content = "tsiah png"

TaigitvSettledOk ==
    /\ phase[TaigiTV] = "settled"
    /\ upstream[TaigiTV].kind = "body"
    /\ outcome[TaigiTV].tag = "Ok"

Increasing(f) == \A i, j \in DOMAIN f : i < j => f[i] < f[j]

\* C9 as stated: every output line of TaigiTV's adapter comes, in document
\* order, from one of the first 3 matched anchors; a match at position 4 or
\* later never appears.
C9_FirstThreeMatches ==
    TaigitvSettledOk =>
        LET d == upstream[TaigiTV].body
            res == outcome[TaigiTV].val
        IN  \E f \in [1..Len(res) -> 1..Min(3, Len(d))] :
                /\ Increasing(f)
                /\ \A i \in 1..Len(res) :
                      d[f[i]].href.some /\ res[i] = taigitv_line(d[f[i]])

WithHref(d) == {i \in 1..Len(d) : d[i].href.some}

FirstThreeWithHref(d) ==
    {i \in WithHref(d) : Cardinality({j \in WithHref(d) : j < i}) < 3}

\* C9 amended: the output is built, in document order, from the first 3
\* matched anchors that carry an href; anchors without one are skipped
\* before the limit of 3 applies.
C9_FirstThreeWithHref ==
    TaigitvSettledOk =>
        LET d == upstream[TaigiTV].body
            res == outcome[TaigiTV].val
            K == FirstThreeWithHref(d)
        IN  /\ Len(res) = Cardinality(K)
            /\ \A i \in K : res[Cardinality({j \in K : j <= i})] = taigitv_line(d[i])

\* C9 witness: the first match has no href and the fourth match is in the
\* output.
C9_Witness ==
    /\ TaigitvSettledOk
    /\ Len(upstream[TaigiTV].body) >= 4
    /\ ~upstream[TaigiTV].body[1].href.some
    /\ Len(outcome[TaigiTV].val) = 3
    /\ outcome[TaigiTV].val[3] = taigitv_line(upstream[TaigiTV].body[4])

ItaigiSettledOk ==
    /\ phase[iTaigi] = "settled"
    /\ upstream[iTaigi].kind = "body"
    /\ outcome[iTaigi].tag = "Ok"

IsSuggestionLine(line) == ends_with(line, SuggestTag \o " - https://itaigi.tw")

NoForeignEntries(suggestion) ==
    ~suggestion.foreign_list.some \/ suggestion.foreign_list.v = <<>>

\* C10: iTaigi's fallback path is evaluated exactly when the primary path
\* produced no result, so a result list never mixes primary and suggestion
\* entries; a fallback entry without nested foreign-word entries shows the
\* original keyword as its subject.
C10_FallbackOnlyWhenEmpty ==
    ItaigiSettledOk =>
        LET json == upstream[iTaigi].body
            res == outcome[iTaigi].val
            primary == itaigi_primary(json)
        IN  /\ primary # <<>> => res = primary
            /\ primary = <<>> => res = itaigi_fallback(json, keyword)
            /\ \/ \A i \in 1..Len(res) : IsSuggestionLine(res[i])
               \/ \A i \in 1..Len(res) : ~IsSuggestionLine(res[i])
            /\ (primary = <<>> /\ json.suggestions.some) =>
                  \A i \in 1..Len(res) :
                      NoForeignEntries(json.suggestions.v[i]) =>
                          starts_with(res[i], IconItaigi \o " " \o keyword \o " -> ")

\* C10 witness: the primary list is empty and the first suggestion, which has
\* no foreign-word list, is shown under the keyword.
C10_Witness ==
    /\ ItaigiSettledOk
    /\ upstream[iTaigi].body.list = Some(<<>>)
    /\ upstream[iTaigi].body.suggestions.some
    /\ Len(outcome[iTaigi].val) >= 2
    /\ NoForeignEntries(upstream[iTaigi].body.suggestions.v[1])
    /\ starts_with(outcome[iTaigi].val[1], IconItaigi \o " tsiah png -> ")

====
